---------------------------- MODULE Spec2Model ----------------------------
(***************************************************************************)
(* A model of the countries analytics library (analysis_vaex.py) and of    *)
(* the dashboard script that drives it (app.py).                           *)
(*                                                                         *)
(* A table is an ordered list of column names and an ordered list of rows; *)
(* a row is a function from the table's column names to values.  Tables    *)
(* are Python objects: they live on a heap and are passed by reference, so *)
(* that "returns a new table" and "mutates its argument" are different     *)
(* things in the model, as they are in the code.                           *)
(***************************************************************************)
EXTENDS Integers, Sequences, FiniteSets, TLC

\* ------------------------------------------------------------------------
\* Bounds of the model
\* ------------------------------------------------------------------------
MaxRows == 2
MaxVal == 2
\* rows of the tables that are ranked and aggregated
MaxRankRows == 3

\* ------------------------------------------------------------------------
\* Values
\* ------------------------------------------------------------------------
\* A missing (null) string value, as fillna sees it.
NA == "<NA>"
\* Python values of the optional arguments: None, a string, a list of
\* strings, an integer
None == [kind |-> "None"]
Str(s) == [kind |-> "str", v |-> s]
List(l) == [kind |-> "list", v |-> l]
Num(k) == [kind |-> "int", v |-> k]
\* x is None
IsNone(x) == x.kind = "None"
\* isinstance(x, str)
IsStr(x) == x.kind = "str"

Abs(x) == IF x < 0 THEN -x ELSE x
Min2(a, b) == IF a <= b THEN a ELSE b

RECURSIVE GCD(_, _)
GCD(a, b) == IF b = 0 THEN a ELSE GCD(b, a % b)

\* A quotient of two integers, kept exact as a reduced fraction with a
\* positive denominator.  A zero denominator does not raise in an array
\* division: it yields inf, -inf or nan, kept here as (sign, 0).
Quot(n, d) ==
    IF d = 0
    THEN [num |-> IF n > 0 THEN 1 ELSE IF n < 0 THEN -1 ELSE 0, den |-> 0]
    ELSE LET g == GCD(Abs(n), Abs(d))
             s == IF d < 0 THEN -1 ELSE 1
         IN  [num |-> s * (n \div g), den |-> s * (d \div g)]

FracAdd(x, y) == Quot(x.num * y.den + y.num * x.den, x.den * y.den)
FracDivInt(x, k) == Quot(x.num, x.den * k)
\* x <= y for fractions with positive denominators
FracLeq(x, y) == x.num * y.den <= y.num * x.den

\* ------------------------------------------------------------------------
\* Sequences
\* ------------------------------------------------------------------------
Range(s) == {s[i] : i \in 1..Len(s)}
Contains(s, x) == \E i \in 1..Len(s) : s[i] = x

RECURSIVE Select(_, _)
\* the indices i of 1..n, in increasing order, with keep[i]
Select(n, keep) ==
    IF n = 0 THEN <<>>
    ELSE IF keep[n] THEN Append(Select(n - 1, keep), n) ELSE Select(n - 1, keep)

\* variant: .tail(n)
Head_tail(s, n) == SubSeq(s, Len(s) - Min2(n, Len(s)) + 1, Len(s))
\* .head(n), n >= 0
Head_(s, n) == SubSeq(s, 1, Min2(n, Len(s)))

\* ------------------------------------------------------------------------
\* Tables
\* ------------------------------------------------------------------------
Table(cols, rows) == [cols |-> cols, rows |-> rows]
NoTable == Table(<<>>, <<>>)

\* vx.get_column_names()
get_column_names(t) == t.cols
HasCol(t, c) == Contains(get_column_names(t), c)

\* the rows of t at the given positions, in that order
TakeRows(t, idx) == Table(t.cols, [k \in 1..Len(idx) |-> t.rows[idx[k]]])
\* a column expression is the sequence of its values, one per row
Rows(t) == 1..Len(t.rows)
\* df[mask]: the positions of the rows the boolean column mask keeps
FilterIdx(t, mask) == Select(Len(t.rows), mask)
\* df[name] = column: the column is replaced, or appended when new
SetCol(t, c, column) ==
    Table(IF HasCol(t, c) THEN t.cols ELSE Append(t.cols, c),
          [i \in Rows(t) |->
              [k \in (DOMAIN t.rows[i]) \cup {c} |->
                  IF k = c THEN column[i] ELSE t.rows[i][k]]])
\* df[cols]: projection on a list of columns
Project(t, cols) ==
    Table(cols, [i \in 1..Len(t.rows) |-> [k \in Range(cols) |-> t.rows[i][k]]])

\* ------------------------------------------------------------------------
\* The heap of table objects
\* ------------------------------------------------------------------------
\* a reference is an index into the heap; 0 is no object
Alloc(h, t) == Append(h, t)
New(h) == Len(h) + 1

RECURSIVE Dedup(_)
Dedup(s) ==
    IF s = <<>> THEN <<>>
    ELSE LET d == Dedup(SubSeq(s, 1, Len(s) - 1))
             x == s[Len(s)]
         IN  IF x = 0 \/ Contains(d, x) THEN d ELSE Append(d, x)

\* garbage collection: keep the objects the roots refer to, renumbered in
\* the order of the roots
Live(roots) == Dedup(roots)
Moved(roots, r) ==
    IF r = 0 THEN 0 ELSE CHOOSE i \in 1..Len(Live(roots)) : Live(roots)[i] = r
Collect(h, roots) == [i \in 1..Len(Live(roots)) |-> h[Live(roots)[i]]]


\* the outcome of a call: the heap after it, and what it returned or raised
\*   kind  "table"       ref is the returned table
\*         "stats"       val is the returned dictionary
\*         "ValueError"  an error the function itself raises; val its message
\*         "VaexError"   an error raised inside the dataframe library
\*   order the positions, in the input table, of the rows of the returned table
Outcome(h, kind, ref, order, val) ==
    [heap |-> h, kind |-> kind, ref |-> ref, order |-> order, val |-> val]
Returned(h, ref, order) == Outcome(h, "table", ref, order, "")
Raised(h, kind, msg) == Outcome(h, kind, 0, <<>>, msg)
Identity(t) == [i \in 1..Len(t.rows) |-> i]
Compose(p, q) == [k \in 1..Len(q) |-> p[q[k]]]

\* ------------------------------------------------------------------------
\* 1) Load
\* ------------------------------------------------------------------------
\* a path is a sequence of characters
LowerChar(c) ==
    CASE c = "A" -> "a" [] c = "B" -> "b" [] c = "C" -> "c" [] c = "D" -> "d"
      [] c = "E" -> "e" [] c = "F" -> "f" [] c = "G" -> "g" [] c = "H" -> "h"
      [] c = "I" -> "i" [] c = "J" -> "j" [] c = "K" -> "k" [] c = "L" -> "l"
      [] c = "M" -> "m" [] c = "N" -> "n" [] c = "O" -> "o" [] c = "P" -> "p"
      [] c = "Q" -> "q" [] c = "R" -> "r" [] c = "S" -> "s" [] c = "T" -> "t"
      [] c = "U" -> "u" [] c = "V" -> "v" [] c = "W" -> "w" [] c = "X" -> "x"
      [] c = "Y" -> "y" [] c = "Z" -> "z" [] OTHER -> c
\* variant: the path compared as given
lower_unchanged(path) == path
\* path.lower()
lower(path) == [i \in 1..Len(path) |-> LowerChar(path[i])]
\* p.endswith(suffix)
endswith(p, suffix) ==
    /\ Len(suffix) <= Len(p)
    /\ SubSeq(p, Len(p) - Len(suffix) + 1, Len(p)) = suffix

ExtParquet == <<".", "p", "a", "r", "q", "u", "e", "t">>
ExtHdf5 == <<".", "h", "d", "f", "5">>
ExtCsv == <<".", "c", "s", "v">>

\* which reader load_vaex_df hands the path to: "open" is vaex.open,
\* "from_csv" is vaex.from_csv, "none" is the ValueError branch
Reader(path) ==
    LET p == lower(path)
    IN  IF endswith(p, ExtParquet) \/ endswith(p, ExtHdf5) THEN "open"
        ELSE IF endswith(p, ExtCsv) THEN "from_csv"
        ELSE "none"

\* load_vaex_df(path), the file at path holding the table file
load_vaex_df(h, path, file) ==
    IF Reader(path) = "none"
    THEN Raised(h, "ValueError", "Unsupported file type. Use .parquet / .hdf5 / .csv")
    ELSE Outcome(Alloc(h, file), "table", New(h), Identity(file), Reader(path))

\* ------------------------------------------------------------------------
\* 2) Cleaning
\* ------------------------------------------------------------------------
\* variant: vx2 = vx, the same object
Copy_alias(h, r) == [heap |-> h, ref |-> r]
\* vx.copy(): a new object with the same content
Copy(h, r) == [heap |-> Alloc(h, h[r]), ref |-> New(h)]
\* vx2.capital.fillna("Unknown")
FillCapital(t) ==
    [i \in Rows(t) |-> IF t.rows[i]["capital"] = NA THEN "Unknown" ELSE t.rows[i]["capital"]]
\* vx2.population > 0
ValidPopulation(t) == [i \in Rows(t) |-> t.rows[i]["population"] > 0]
\* variant: vx2.area >= 0
ValidArea_nonneg(t) == [i \in Rows(t) |-> t.rows[i]["area"] >= 0]
\* vx2.area > 0
ValidArea(t) == [i \in Rows(t) |-> t.rows[i]["area"] > 0]
\* vx2.population / vx2.area
Density(t) == [i \in Rows(t) |-> Quot(t.rows[i]["population"], t.rows[i]["area"])]

\* The local variable vx2 (vx_f in filter_countries) is st: the heap, the
\* object the variable refers to, and order, the positions in the function's
\* argument of the rows that object holds.
\* the table vx2 refers to
Tab(st) == st.heap[st.ref]
\* variant: the first of the rows the mask keeps is dropped with the others
Narrow_skipfirst(st, mask) ==
    [heap |-> Alloc(st.heap, TakeRows(st.heap[st.ref],
                 SubSeq(FilterIdx(st.heap[st.ref], mask), 2,
                        Len(FilterIdx(st.heap[st.ref], mask))))),
     ref |-> New(st.heap),
     order |-> Compose(st.order, SubSeq(FilterIdx(st.heap[st.ref], mask), 2,
                                        Len(FilterIdx(st.heap[st.ref], mask))))]
\* vx2 = vx2[mask]: a new object holding the rows the mask keeps
Narrow(st, mask) ==
    [heap |-> Alloc(st.heap, TakeRows(st.heap[st.ref], FilterIdx(st.heap[st.ref], mask))),
     ref |-> New(st.heap),
     order |-> Compose(st.order, FilterIdx(st.heap[st.ref], mask))]
\* vx2[c] = column: the object vx2 refers to is changed in place
Assign(st, c, column) ==
    [st EXCEPT !.heap = [st.heap EXCEPT ![st.ref] = SetCol(@, c, column)]]

\* if "capital" in vx2.get_column_names(): vx2["capital"] = ...
CleanCapital(st) ==
    IF HasCol(Tab(st), "capital") THEN Assign(st, "capital", FillCapital(Tab(st))) ELSE st
\* if "population" in vx2.get_column_names(): vx2 = vx2[vx2.population > 0]
CleanPopulation(st) ==
    IF HasCol(Tab(st), "population") THEN Narrow(st, ValidPopulation(Tab(st))) ELSE st
\* if "area" in vx2.get_column_names(): vx2 = vx2[vx2.area > 0]
CleanArea(st) ==
    IF HasCol(Tab(st), "area") THEN Narrow(st, ValidArea(Tab(st))) ELSE st
\* if both are in vx2.get_column_names(): vx2["density"] = ...
CleanDensity(st) ==
    IF HasCol(Tab(st), "population") /\ HasCol(Tab(st), "area")
    THEN Assign(st, "density", Density(Tab(st))) ELSE st

\* vx2 = vx.copy()
CleanStart(c, t) == [heap |-> c.heap, ref |-> c.ref, order |-> Identity(t)]
\* return vx2
Return(st) == Returned(st.heap, st.ref, st.order)

clean_countries(h, vx_) ==
    Return(CleanDensity(CleanArea(CleanPopulation(CleanCapital(
        CleanStart(Copy(h, vx_), h[vx_]))))))

\* ------------------------------------------------------------------------
\* 3) Filter
\* ------------------------------------------------------------------------
\* region_list
RegionList(region) == IF IsStr(region) THEN <<region.v>> ELSE region.v
\* vx_f.region.isin(region_list)
InRegion(t, region) == [i \in Rows(t) |-> Contains(RegionList(region), t.rows[i]["region"])]
\* variant: vx_f.population > min_pop
AtLeast_strict(t, min_pop) == [i \in Rows(t) |-> t.rows[i]["population"] > min_pop]
\* vx_f.population >= min_pop
AtLeast(t, min_pop) == [i \in Rows(t) |-> t.rows[i]["population"] >= min_pop]
\* vx_f.population <= max_pop
AtMost(t, max_pop) == [i \in Rows(t) |-> t.rows[i]["population"] <= max_pop.v]

\* variant: a region selector on a table without a region column matches no row
FilterRegion_strict(st, region) ==
    IF IsNone(region) THEN st
    ELSE IF HasCol(Tab(st), "region") THEN Narrow(st, InRegion(Tab(st), region))
    ELSE Narrow(st, [i \in Rows(Tab(st)) |-> FALSE])
\* if region is not None and "region" in vx_f.get_column_names(): ...
FilterRegion(st, region) ==
    IF ~IsNone(region) /\ HasCol(Tab(st), "region")
    THEN Narrow(st, InRegion(Tab(st), region)) ELSE st
\* if max_pop is not None: vx_f = vx_f[vx_f.population <= max_pop]
FilterMax(st, max_pop) ==
    IF ~IsNone(max_pop) THEN Narrow(st, AtMost(Tab(st), max_pop)) ELSE st
\* if "population" in vx_f.get_column_names(): ...
FilterPopulation(st, min_pop, max_pop) ==
    IF HasCol(Tab(st), "population")
    THEN FilterMax(Narrow(st, AtLeast(Tab(st), min_pop)), max_pop)
    ELSE st

filter_countries(h, vx_, region, min_pop, max_pop) ==
    Return(FilterPopulation(
        FilterRegion([heap |-> h, ref |-> vx_, order |-> Identity(h[vx_])], region),
        min_pop, max_pop))

\* ------------------------------------------------------------------------
\* 4) Top N
\* ------------------------------------------------------------------------
\* a <= b for two values of column by (density is a quotient, the others
\* are integers)
KeyLeq(by, a, b) == IF by = "density" THEN FracLeq(a, b) ELSE a <= b

Perms(n) == {p \in [1..n -> 1..n] : \A i, j \in 1..n : i # j => p[i] # p[j]}

\* p lists the rows of t by non-increasing value of column by
Descending(t, by, p) ==
    \A k \in 1..(Len(t.rows) - 1) :
        KeyLeq(by, t.rows[p[k + 1]][by], t.rows[p[k]][by])

\* variant: vx.sort(by): ascending, the library's default
sort_ascending(t, by) ==
    {p \in Perms(Len(t.rows)) :
        \A k \in 1..(Len(t.rows) - 1) : KeyLeq(by, t.rows[p[k]][by], t.rows[p[k + 1]][by])}
\* vx.sort(by, ascending=False): the row orders the library may produce.  The
\* call names no sort algorithm and the library documents none, so the order
\* among rows with equal keys is left to it: every descending order is an
\* outcome.
sort(t, by) == {p \in Perms(Len(t.rows)) : Descending(t, by, p)}

\* cols, when the caller passes None to top_population
DefaultColsPopulation(t) ==
    <<"cca3", "name_common", "region", "population", "area">>
        \o (IF HasCol(t, "density") THEN <<"density">> ELSE <<>>)
\* cols, when the caller passes None to top_density
DefaultColsDensity == <<"cca3", "name_common", "region", "population", "area", "density">>

\* vx.sort(by, ascending=False)[cols].head(n): sort and the projection each
\* raise inside the library when a column they name is absent
SortProjectHead(h, vx_, by, cols, n) ==
    LET t == h[vx_]
    IN  IF ~HasCol(t, by) THEN {Raised(h, "VaexError", by)}
        ELSE IF \E i \in 1..Len(cols) : ~HasCol(t, cols[i])
        THEN {Raised(h, "VaexError", "cols")}
        ELSE {Returned(Alloc(h, Project(TakeRows(t, Head_(p, n)), cols)),
                       New(h), Head_(p, n)) : p \in sort(t, by)}

\* top_population(vx, n, cols).  The return statement (line 106) is read as
\* the last statement of the function, which is what the file means; as
\* written, at column 0, the file does not compile at all.
top_population(h, vx_, n, cols) ==
    LET cols_ == IF IsNone(cols) THEN DefaultColsPopulation(h[vx_]) ELSE cols.v
    IN  SortProjectHead(h, vx_, "population", cols_, n)

\* top_density(vx, n, cols)
top_density(h, vx_, n, cols) ==
    IF ~HasCol(h[vx_], "density")
    THEN {Raised(h, "ValueError",
                 "density column not found. Run clean_countries() first or create vx['density'].")}
    ELSE LET cols_ == IF IsNone(cols) THEN DefaultColsDensity ELSE cols.v
         IN  SortProjectHead(h, vx_, "density", cols_, n)

\* ------------------------------------------------------------------------
\* 5) GroupBy/Aggregation
\* ------------------------------------------------------------------------
RECURSIVE SumInt(_, _, _)
\* the sum of integer column c over the rows at positions idx
SumInt(t, c, idx) ==
    IF idx = <<>> THEN 0
    ELSE t.rows[idx[1]][c] + SumInt(t, c, SubSeq(idx, 2, Len(idx)))
RECURSIVE SumFrac(_, _, _)
\* the sum of quotient column c over the rows at positions idx
SumFrac(t, c, idx) ==
    IF idx = <<>> THEN Quot(0, 1)
    ELSE FracAdd(t.rows[idx[1]][c], SumFrac(t, c, SubSeq(idx, 2, Len(idx))))

\* vaex.agg.count(), vaex.agg.sum(c), vaex.agg.mean(c) over the rows at idx
AggCount(idx) == Len(idx)
AggSum(t, c, idx) == SumInt(t, c, idx)
AggMean(t, c, idx) ==
    IF c = "density" THEN FracDivInt(SumFrac(t, c, idx), Len(idx))
    ELSE Quot(SumInt(t, c, idx), Len(idx))

\* the keys of agg_map, in insertion order, after the group column
AggCols(t) ==
    <<"region", "country_count">>
        \o (IF HasCol(t, "population") THEN <<"total_population", "avg_population">> ELSE <<>>)
        \o (IF HasCol(t, "area") THEN <<"avg_area">> ELSE <<>>)
        \o (IF HasCol(t, "density") THEN <<"avg_density">> ELSE <<>>)

Regions(t) == {t.rows[i]["region"] : i \in 1..Len(t.rows)}
Members(t, g) == FilterIdx(t, [i \in Rows(t) |-> t.rows[i]["region"] = g])

\* the output row of group g
AggRow(t, g) ==
    LET idx == Members(t, g)
    IN  [c \in Range(AggCols(t)) |->
            CASE c = "region" -> g
              [] c = "country_count" -> AggCount(idx)
              [] c = "total_population" -> AggSum(t, "population", idx)
              [] c = "avg_population" -> AggMean(t, "population", idx)
              [] c = "avg_area" -> AggMean(t, "area", idx)
              [] c = "avg_density" -> AggMean(t, "density", idx)]

\* variant: vx.groupby(by="region", agg=agg_map), the sort forgotten
GroupOrders_unsorted(t) ==
    {s \in [1..Cardinality(Regions(t)) -> Regions(t)] :
        \A i, j \in 1..Cardinality(Regions(t)) : i # j => s[i] # s[j]}
\* vx.groupby(by="region", agg=agg_map).sort("country_count", ascending=False):
\* one row per group; the groups come in the library's discovery order and
\* the sort leaves the order among equal counts to the library, so every
\* order of the groups by non-increasing count is an outcome
GroupOrders(t) ==
    LET k == Cardinality(Regions(t))
    IN  {s \in [1..k -> Regions(t)] :
            /\ \A i, j \in 1..k : i # j => s[i] # s[j]
            /\ \A i \in 1..(k - 1) :
                 Len(Members(t, s[i + 1])) <= Len(Members(t, s[i]))}

agg_by_region(h, vx_) ==
    LET t == h[vx_]
    IN  IF ~HasCol(t, "region")
        THEN {Raised(h, "ValueError", "region column not found")}
        ELSE {Outcome(Alloc(h, Table(AggCols(t), [i \in 1..Len(s) |-> AggRow(t, s[i])])),
                      "table", New(h), <<>>, "")
                 : s \in GroupOrders(t)}

\* ------------------------------------------------------------------------
\* 6) Descriptive stats
\* ------------------------------------------------------------------------
\* vx[c].min(), vx[c].mean(), vx[c].max(); an empty column has none of them
\* (the library yields nan)
ColStats(t, c) ==
    LET n == Len(t.rows)
        vals == {t.rows[i][c] : i \in 1..n}
    IN  IF n = 0 THEN [min |-> "nan", mean |-> "nan", max |-> "nan"]
        ELSE [min |-> CHOOSE v \in vals : \A w \in vals : KeyLeq(c, v, w),
              mean |-> AggMean(t, c, Identity(t)),
              max |-> CHOOSE v \in vals : \A w \in vals : KeyLeq(c, w, v)]

descriptive_stats(h, vx_) ==
    LET t == h[vx_]
        present == {c \in {"population", "density", "area"} : HasCol(t, c)}
    IN  Outcome(h, "stats", 0, <<>>, [c \in present |-> ColStats(t, c)])

\* ------------------------------------------------------------------------
\* The program's state
\* ------------------------------------------------------------------------
VARIABLES
    pc,      \* where the caller is
    path,    \* the path of the data file
    file,    \* the table the data file holds
    heap,    \* the table objects alive
    raw,     \* the loaded table (a reference; 0: none)
    vx,      \* the cleaned table, which app.py caches
    vx_f,    \* the filtered table
    call,    \* the last call and its arguments
    ret,     \* what the last call returned or raised
    given,   \* the content of the last call's table argument when it was called
    saved,   \* the content of the cleaned table when clean_countries returned it
    sidebar  \* the values of app.py's sidebar widgets

vars == <<pc, path, file, heap, raw, vx, vx_f, call, ret, given, saved, sidebar>>

NoCall == [fn |-> "none"]
NoRet == [kind |-> "none", ref |-> 0, order |-> <<>>, val |-> ""]

\* the caller keeps the references r (raw), v (vx), f (vx_f) and the result of
\* the call; every other object is garbage
Store(o, r, v, f) ==
    LET roots == <<r, v, f, o.ref>>
    IN  /\ heap' = Collect(o.heap, roots)
        /\ raw' = Moved(roots, r)
        /\ vx' = Moved(roots, v)
        /\ vx_f' = Moved(roots, f)
        /\ ret' = [kind |-> o.kind, ref |-> Moved(roots, o.ref),
                   order |-> o.order, val |-> o.val]

\* st.slider("Top N", min_value=5, max_value=50, value=10)
TopNMin == 5
TopNDefault == 10
\* the widgets before any interaction
Defaults == [region_pick |-> <<>>, min_pop |-> 0, max_pop |-> None, top_n |-> TopNDefault]

\* ------------------------------------------------------------------------
\* Input data
\* ------------------------------------------------------------------------
AllCols == <<"cca3", "name_common", "capital", "region", "population", "area">>
Optional == {"name_common", "capital", "region", "population", "area"}

\* the country code of the row at position i
Code(i) == CASE i = 1 -> "VNM" [] i = 2 -> "FRA" [] i = 3 -> "USA" [] OTHER -> "JPN"

\* the columns of a file that has the optional columns S, in file order
ColsOf(S) == SelectSeq(AllCols, LAMBDA c : c = "cca3" \/ c \in S)

\* the tables of at most n rows with optional columns S, column c taking its
\* values in D[c]
RowVals(S, D) ==
    {[c \in S |-> r[c]] :
        r \in [name_common : IF "name_common" \in S THEN D.name_common ELSE {""},
               capital : IF "capital" \in S THEN D.capital ELSE {""},
               region : IF "region" \in S THEN D.region ELSE {""},
               population : IF "population" \in S THEN D.population ELSE {0},
               area : IF "area" \in S THEN D.area ELSE {0}]}
MkTable(S, s) ==
    Table(ColsOf(S),
          [i \in 1..Len(s) |->
              [c \in S \cup {"cca3"} |-> IF c = "cca3" THEN Code(i) ELSE s[i][c]]])
\* t is a table of at most n rows over one of the schemas
IsTable(t, n, schemas, D) ==
    \E S \in schemas, k \in 0..n : \E s \in [1..k -> RowVals(S, D)] : t = MkTable(S, s)

Paths ==
    {<<"d", ".", "p", "a", "r", "q", "u", "e", "t">>,
     <<"d", ".", "P", "A", "R", "Q", "U", "E", "T">>,
     <<"d", ".", "P", "a", "r", "q", "u", "e", "t">>,
     <<"d", ".", "h", "d", "f", "5">>,
     <<"d", ".", "H", "D", "F", "5">>,
     <<"d", ".", "c", "s", "v">>,
     <<"d", ".", "C", "S", "V">>,
     <<"d", ".", "C", "s", "v">>,
     <<"d", ".", "t", "x", "t">>,
     <<"d", ".", "j", "s", "o", "n">>,
     <<"d", ".", "c", "s", "v", ".", "b", "a", "k">>,
     <<"d", ".", "p", "a", "r", "q", "u", "e", "t", ".", "c", "s", "v">>,
     <<"d", ".", "c", "s", "v", ".", "h", "d", "f", "5">>,
     <<"p", "a", "r", "q", "u", "e", "t">>,
     <<"d", "c", "s", "v">>,
     <<".", "c", "s", "v">>,
     <<>>,
     <<"d", ".", "h", "d", "f">>,
     <<"d", ".", "p", "a", "r", "q", "u", "e", "t", " ">>,
     <<"c", "s", "v", ".", "d">>}

\* CANDIDATE_FILES
CANDIDATE_FILES ==
    {<<"c", "o", "u", "n", "t", "r", "i", "e", "s", "_", "e", "d", "a", ".", "p", "a", "r", "q", "u", "e", "t">>,
     <<"c", "o", "u", "n", "t", "r", "i", "e", "s", ".", "p", "a", "r", "q", "u", "e", "t">>}

\* ------------------------------------------------------------------------
\* The calls
\* ------------------------------------------------------------------------
\* a call that leaves the caller's tables as they are and keeps its result
ReportDone(o) == Store(o, raw, vx, vx_f)

\* top_population(t, n, cols), t one of the caller's tables
TopPopulation(t, n, cols, next) ==
    /\ \E o \in top_population(heap, t, n, cols) : ReportDone(o)
    /\ pc' = next
    /\ call' = [fn |-> "top_population", by |-> "population", n |-> n, cols |-> cols]
    /\ given' = heap[t]
    /\ UNCHANGED <<path, file, saved, sidebar>>

\* top_density(t, n, cols)
TopDensity(t, n, cols, next) ==
    /\ \E o \in top_density(heap, t, n, cols) : ReportDone(o)
    /\ pc' = next
    /\ call' = [fn |-> "top_density", by |-> "density", n |-> n, cols |-> cols]
    /\ given' = heap[t]
    /\ UNCHANGED <<path, file, saved, sidebar>>

\* agg_by_region(t)
AggByRegion(t, next) ==
    /\ \E o \in agg_by_region(heap, t) : ReportDone(o)
    /\ pc' = next
    /\ call' = [fn |-> "agg_by_region"]
    /\ given' = heap[t]
    /\ UNCHANGED <<path, file, saved, sidebar>>

\* descriptive_stats(t)
DescriptiveStats(t, next) ==
    /\ ReportDone(descriptive_stats(heap, t))
    /\ pc' = next
    /\ call' = [fn |-> "descriptive_stats"]
    /\ given' = heap[t]
    /\ UNCHANGED <<path, file, saved, sidebar>>

\* raw = load_vaex_df(path)
LoadDone(o) ==
    /\ Store(o, o.ref, 0, 0)
    /\ pc' = IF o.kind = "table" THEN "loaded" ELSE "failed"
Load ==
    /\ pc = "start"
    /\ LoadDone(load_vaex_df(heap, path, file))
    /\ call' = [fn |-> "load_vaex_df"]
    /\ given' = NoTable
    /\ UNCHANGED <<path, file, saved, sidebar>>

\* vx = clean_countries(raw)
CleanDone(o) ==
    /\ Store(o, raw, o.ref, 0)
    /\ saved' = o.heap[o.ref]
Clean ==
    /\ pc = "loaded"
    /\ CleanDone(clean_countries(heap, raw))
    /\ pc' = "cleaned"
    /\ call' = [fn |-> "clean_countries"]
    /\ given' = heap[raw]
    /\ UNCHANGED <<path, file, sidebar>>

\* vx_f = filter_countries(t, region, min_pop, max_pop), t one of the
\* caller's tables; the caller goes on to next
FilterDone(o, keep) == Store(o, keep, vx, o.ref)
Filter(t, region, min_pop, max_pop, next) ==
    /\ FilterDone(filter_countries(heap, t, region, min_pop, max_pop), raw)
    /\ pc' = next
    /\ call' = [fn |-> "filter_countries", region |-> region,
                min_pop |-> min_pop, max_pop |-> max_pop]
    /\ given' = heap[t]
    /\ UNCHANGED <<path, file, saved, sidebar>>

\* ------------------------------------------------------------------------
\* The loader on its own: any path, a small file
\* ------------------------------------------------------------------------
LoadSchemas == {Optional}
LoadValues ==
    [name_common |-> {"n"}, capital |-> {NA, "Hanoi"}, region |-> {"Asia"},
     population |-> {1}, area |-> {1}]

InitLoad ==
    /\ pc = "start"
    /\ path \in Paths
    /\ IsTable(file, MaxRows, LoadSchemas, LoadValues)
    /\ heap = <<>>
    /\ raw = 0 /\ vx = 0 /\ vx_f = 0
    /\ call = NoCall /\ ret = NoRet
    /\ given = NoTable /\ saved = NoTable
    /\ sidebar = Defaults

NextLoad == Load
SpecLoad == InitLoad /\ [][NextLoad]_vars

\* ------------------------------------------------------------------------
\* The state after raw = load_vaex_df(DataPath), the file holding one of
\* the tables of the set files
\* ------------------------------------------------------------------------
DataPath == <<"d", ".", "p", "a", "r", "q", "u", "e", "t">>

Loaded(n, schemas, D) ==
    /\ pc = "loaded"
    /\ path = DataPath
    /\ IsTable(file, n, schemas, D)
    /\ heap = <<file>>
    /\ raw = 1 /\ vx = 0 /\ vx_f = 0
    /\ call = [fn |-> "load_vaex_df"]
    /\ ret = [kind |-> "table", ref |-> 1, order |-> Identity(file), val |-> Reader(DataPath)]
    /\ given = NoTable /\ saved = NoTable
    /\ sidebar = Defaults

\* ------------------------------------------------------------------------
\* The cleaner on tables that have population and area
\* ------------------------------------------------------------------------
CleanSchemas == {{"population", "area"}, {"capital", "population", "area"}}
CleanValues ==
    [name_common |-> {"n"}, capital |-> {NA, "Hanoi"}, region |-> {"Asia"},
     population |-> (-1)..MaxVal, area |-> (-1)..MaxVal]

InitClean == Loaded(MaxRows, CleanSchemas, CleanValues)
NextClean == Clean
SpecClean == InitClean /\ [][NextClean]_vars

\* ------------------------------------------------------------------------
\* The cleaner and the filter on tables with any of the columns capital,
\* population, area, region missing
\* ------------------------------------------------------------------------
PartialSchemas == SUBSET {"capital", "population", "area", "region"}
PartialValues ==
    [name_common |-> {"n"}, capital |-> {NA, "Hanoi"}, region |-> {"Asia"},
     population |-> 0..MaxVal, area |-> {0, 1}]

RegionArgsPartial == {None, Str("Europe"), List(<<"Europe">>)}
MaxPopArgsPartial == {None, Num(1)}

FilterLoaded ==
    /\ pc = "loaded"
    /\ \E region \in RegionArgsPartial, min_pop \in {0, MaxVal},
          max_pop \in MaxPopArgsPartial :
          Filter(raw, region, min_pop, max_pop, "filtered")

InitPartial == Loaded(MaxRows, PartialSchemas, PartialValues)
NextPartial == Clean \/ FilterLoaded
SpecPartial == InitPartial /\ [][NextPartial]_vars

\* ------------------------------------------------------------------------
\* The filter on tables that have region and population, and the filter
\* applied again, with the same arguments, to what it returned
\* ------------------------------------------------------------------------
FilterSchemas == {{"region", "population"}}
FilterValues ==
    [name_common |-> {"n"}, capital |-> {NA}, region |-> {"Asia", "Europe"},
     population |-> 0..MaxVal, area |-> {1}]

RegionArgs ==
    {None, Str("Asia"), Str("Europe"), Str("Africa"), List(<<>>), List(<<"Asia">>),
     List(<<"Asia", "Europe">>), List(<<"Europe", "Africa">>)}
MinPopArgs == (-1)..(MaxVal + 1)
MaxPopArgs == {None} \cup {Num(k) : k \in 0..MaxVal}

FilterFirst ==
    /\ pc = "loaded"
    /\ \E region \in RegionArgs, min_pop \in MinPopArgs, max_pop \in MaxPopArgs :
          Filter(raw, region, min_pop, max_pop, "filtered")

FilterAgain ==
    /\ pc = "filtered"
    /\ Filter(vx_f, call.region, call.min_pop, call.max_pop, "refiltered")

InitFilter == Loaded(MaxRows, FilterSchemas, FilterValues)
NextFilter == FilterFirst \/ FilterAgain
SpecFilter == InitFilter /\ [][NextFilter]_vars

\* ------------------------------------------------------------------------
\* The ranking functions (and the aggregation, for its error), on a loaded
\* table or on the table clean_countries made of it, with any of the columns
\* region, population, area (and so density) missing
\* ------------------------------------------------------------------------
RankSchemas == {S \cup {"name_common"} : S \in SUBSET {"region", "population", "area"}}
RankValues ==
    [name_common |-> {"n"}, capital |-> {NA}, region |-> {"Asia"},
     population |-> {1, 2}, area |-> {1, 2}]

\* the table the caller holds: the cleaned one once there is one
Current == IF vx # 0 THEN vx ELSE raw
Ns == 1..(MaxRankRows + 1)
ColsArgs == {None, List(<<"cca3">>)}

CallTopPopulation ==
    /\ pc \in {"loaded", "cleaned"}
    /\ \E n \in Ns, cols \in ColsArgs : TopPopulation(Current, n, cols, "ranked")
CallTopDensity ==
    /\ pc \in {"loaded", "cleaned"}
    /\ \E n \in Ns, cols \in ColsArgs : TopDensity(Current, n, cols, "ranked")
CallAggByRegion ==
    /\ pc \in {"loaded", "cleaned"}
    /\ AggByRegion(Current, "aggregated")
CallDescriptiveStats ==
    /\ pc \in {"loaded", "cleaned"}
    /\ DescriptiveStats(Current, "described")

InitRank == Loaded(MaxRankRows, RankSchemas, RankValues)
NextRank ==
    \/ Clean
    \/ CallTopPopulation
    \/ CallTopDensity
    \/ CallAggByRegion
SpecRank == InitRank /\ [][NextRank]_vars

\* ------------------------------------------------------------------------
\* The aggregation and the statistics, on tables of several regions
\* ------------------------------------------------------------------------
AggValues ==
    [name_common |-> {"n"}, capital |-> {NA}, region |-> {"Asia", "Europe"},
     population |-> {1, 2}, area |-> {1, 2}]

InitAgg == Loaded(MaxRankRows, RankSchemas, AggValues)
NextAgg ==
    \/ Clean
    \/ CallAggByRegion
    \/ CallDescriptiveStats
SpecAgg == InitAgg /\ [][NextAgg]_vars

\* ------------------------------------------------------------------------
\* app.py: the script runs from top to bottom at the start of the session and
\* again after every interaction with a widget
\* ------------------------------------------------------------------------
AppSchemas == {Optional, Optional \ {"region"}, Optional \ {"population"}}
AppValues ==
    [name_common |-> {"n"}, capital |-> {NA}, region |-> {"Asia", "Europe"},
     population |-> {0, 1, MaxVal}, area |-> {1}]

\* regions = sorted([r for r in vx.region.unique().tolist() if r and ...])
regions(t) == IF HasCol(t, "region") THEN Regions(t) \ {""} ELSE {}
\* what st.multiselect may hold: some of the options, in the order picked
Picks(S) ==
    {p \in UNION {[1..k -> S] : k \in 0..Cardinality(S)} :
        \A i, j \in 1..Len(p) : i # j => p[i] # p[j]}
\* what the widgets may hold after an interaction
Sidebars(t) ==
    [region_pick : Picks(regions(t)), min_pop : {0, MaxVal},
     max_pop : {None, Num(1)}, top_n : {TopNMin, TopNDefault}]
\* region_arg
region_arg(region_pick) ==
    IF Len(region_pick) = 1 THEN Str(region_pick[1])
    ELSE IF Len(region_pick) > 1 THEN List(region_pick)
    ELSE None

\* vx_f = filter_countries(vx, region=region_arg, min_pop=min_pop, max_pop=max_pop),
\* vx being the table get_vx returned (the table it loaded is garbage by now)
RunFilter(sb) ==
    /\ FilterDone(filter_countries(heap, vx, region_arg(sb.region_pick),
                                   sb.min_pop, sb.max_pop), 0)
    /\ pc' = "filtered"
    /\ call' = [fn |-> "filter_countries", region |-> region_arg(sb.region_pick),
                min_pop |-> sb.min_pop, max_pop |-> sb.max_pop]
    /\ given' = heap[vx]
    /\ sidebar' = sb
    /\ UNCHANGED <<path, file, saved>>

\* the run in which get_vx(DATA_PATH) loaded and cleaned the table: the widgets
\* hold what they held
FirstRun ==
    /\ pc = "cleaned"
    /\ RunFilter(sidebar)

\* a run after an interaction: get_vx(DATA_PATH) returns the cached table
Rerun ==
    /\ pc \in {"done", "crashed"}
    /\ \E sb \in Sidebars(heap[vx]) : RunFilter(sb)

\* if st.button("Refresh cache"): st.cache_resource.clear(); st.rerun()
Refresh ==
    /\ pc \in {"done", "crashed"}
    /\ pc' = "start"
    /\ heap' = <<>>
    /\ raw' = 0 /\ vx' = 0 /\ vx_f' = 0
    /\ call' = NoCall /\ ret' = NoRet
    /\ given' = NoTable /\ saved' = NoTable
    /\ UNCHANGED <<path, file, sidebar>>

\* tab2: top_population(vx_f, n=top_n); an exception ends the run
Tab2Population ==
    /\ pc = "filtered"
    /\ TopPopulation(vx_f, sidebar.top_n, None,
                     IF ret'.kind = "table" THEN "tab2" ELSE "crashed")

\* tab2: if "density" in vx_f.get_column_names(): top_density(vx_f, n=top_n)
Tab2Density ==
    /\ pc = "tab2"
    /\ IF HasCol(heap[vx_f], "density")
       THEN TopDensity(vx_f, sidebar.top_n, None,
                       IF ret'.kind = "table" THEN "tab2d" ELSE "crashed")
       ELSE /\ pc' = "tab2d"
            /\ UNCHANGED <<path, file, heap, raw, vx, vx_f, call, ret, given, saved, sidebar>>

\* tab3: agg_by_region(vx_f)
Tab3 ==
    /\ pc = "tab2d"
    /\ AggByRegion(vx_f, IF ret'.kind = "table" THEN "tab3" ELSE "crashed")

\* tab4: descriptive_stats(vx_f)
Tab4 ==
    /\ pc = "tab3"
    /\ DescriptiveStats(vx_f, "done")

Init ==
    /\ pc = "start"
    /\ path \in CANDIDATE_FILES
    /\ IsTable(file, MaxRows, AppSchemas, AppValues)
    /\ heap = <<>>
    /\ raw = 0 /\ vx = 0 /\ vx_f = 0
    /\ call = NoCall /\ ret = NoRet
    /\ given = NoTable /\ saved = NoTable
    /\ sidebar = Defaults

Next ==
    \/ Load
    \/ Clean
    \/ FirstRun
    \/ Rerun
    \/ Refresh
    \/ Tab2Population
    \/ Tab2Density
    \/ Tab3
    \/ Tab4
Spec == Init /\ [][Next]_vars

\* ========================================================================
\* Properties
\* ========================================================================
Increasing(s) == \A k \in 1..(Len(s) - 1) : s[k] < s[k + 1]

\* ---- C9 ----------------------------------------------------------------
UpperParquet == <<".", "P", "A", "R", "Q", "U", "E", "T">>
UpperHdf5 == <<".", "H", "D", "F", "5">>
UpperCsv == <<".", "C", "S", "V">>
\* p ends in the extension, each character in either case
HasExt(p, lo, up) ==
    /\ Len(p) >= Len(lo)
    /\ \A i \in 1..Len(lo) : p[Len(p) - Len(lo) + i] \in {lo[i], up[i]}

\* C9: load_vaex_df picks the reader from the extension alone, compared
\* case-insensitively: .parquet and .hdf5 go to the columnar reader
\* (vaex.open), .csv to the delimited-text reader (vaex.from_csv), and every
\* other path ends in the unsupported-format error, no reader called and no
\* table returned.
C9_LoaderDispatch ==
    pc # "start" =>
        IF HasExt(path, ExtParquet, UpperParquet) \/ HasExt(path, ExtHdf5, UpperHdf5)
        THEN pc = "loaded" /\ ret.kind = "table" /\ ret.val = "open" /\ heap[raw] = file
        ELSE IF HasExt(path, ExtCsv, UpperCsv)
        THEN pc = "loaded" /\ ret.kind = "table" /\ ret.val = "from_csv" /\ heap[raw] = file
        ELSE pc = "failed" /\ ret.kind = "ValueError" /\ ret.ref = 0 /\ raw = 0 /\ heap = <<>>

\* an unsupported path that has a recognised extension inside it was refused
C9_Witness ==
    /\ pc = "failed"
    /\ ret.kind = "ValueError"
    /\ path = <<"d", ".", "c", "s", "v", ".", "b", "a", "k">>

\* ---- C1 ----------------------------------------------------------------
\* C1: when the input has a population and an area column, every row of
\* clean_countries' output is a row of the input with population > 0 and
\* area > 0, and carries a density equal to its population / area (so no
\* density comes from a zero or negative area).
C1_CleanValidDensity ==
    (pc = "cleaned" /\ HasCol(given, "population") /\ HasCol(given, "area")) =>
        /\ ret.kind = "table"
        /\ HasCol(heap[vx], "density")
        /\ \A k \in Rows(heap[vx]) :
             LET row == heap[vx].rows[k]
             IN  /\ row["cca3"] = given.rows[ret.order[k]]["cca3"]
                 /\ row["population"] = given.rows[ret.order[k]]["population"]
                 /\ row["area"] = given.rows[ret.order[k]]["area"]
                 /\ row["population"] > 0
                 /\ row["area"] > 0
                 /\ row["density"].den > 0
                 /\ row["density"].num * row["area"] = row["density"].den * row["population"]

\* a row with a valid population and a zero area was dropped, another kept
\* with a density that is not a whole number
C1_Witness ==
    /\ pc = "cleaned"
    /\ \E i \in Rows(given) : given.rows[i]["population"] > 0 /\ given.rows[i]["area"] = 0
    /\ \E k \in Rows(heap[vx]) : heap[vx].rows[k]["density"] = [num |-> 1, den |-> 2]

\* ---- C7 ----------------------------------------------------------------
\* the rows filter_countries is to keep: a predicate whose column is absent
\* does not count
C7_Kept(i) ==
    /\ (HasCol(given, "region") /\ ~IsNone(call.region)) =>
           given.rows[i]["region"] \in Range(RegionList(call.region))
    /\ HasCol(given, "population") =>
           /\ given.rows[i]["population"] >= call.min_pop
           /\ ~IsNone(call.max_pop) => given.rows[i]["population"] <= call.max_pop.v

\* C7: a missing column is a no-op in clean_countries and filter_countries:
\* both return a table whatever subset of capital, population, area, region
\* is missing; the filter's region selector keeps every row when there is no
\* region column and its population bounds keep every row when there is no
\* population column; the cleaner adds density exactly when population and
\* area are both there.
C7_AbsentColumnsAreNoOps ==
    /\ pc = "cleaned" =>
         /\ ret.kind = "table"
         /\ HasCol(heap[vx], "density") <=>
                (HasCol(given, "population") /\ HasCol(given, "area"))
         /\ (~HasCol(given, "population") /\ ~HasCol(given, "area")) =>
                heap[vx].rows = [i \in Rows(given) |->
                    [c \in DOMAIN given.rows[i] |->
                        IF c = "capital" /\ given.rows[i][c] = NA THEN "Unknown"
                        ELSE given.rows[i][c]]]
    /\ pc = "filtered" =>
         /\ ret.kind = "table"
         /\ heap[vx_f].cols = given.cols
         /\ Increasing(ret.order)
         /\ Range(ret.order) = {i \in Rows(given) : C7_Kept(i)}
         /\ heap[vx_f].rows = [k \in 1..Len(ret.order) |-> given.rows[ret.order[k]]]

\* a filter with a region selector and both population bounds, on a table of
\* MaxRows rows that has neither column, kept every row
C7_Witness ==
    /\ pc = "filtered"
    /\ ~HasCol(given, "region") /\ ~HasCol(given, "population")
    /\ ~IsNone(call.region) /\ ~IsNone(call.max_pop) /\ call.min_pop > 0
    /\ Len(given.rows) = MaxRows
    /\ heap[vx_f].rows = given.rows

\* ---- C2 ----------------------------------------------------------------
\* the regions a selector names
C2_Selected == IF IsStr(call.region) THEN {call.region.v} ELSE Range(call.region.v)
C2_Qualifies(i) ==
    /\ given.rows[i]["region"] \in C2_Selected
    /\ given.rows[i]["population"] >= call.min_pop
    /\ ~IsNone(call.max_pop) => given.rows[i]["population"] <= call.max_pop.v

\* C2: on a table with region and population columns, filter_countries with
\* a region selector (one value or a list), a minimum and an optional
\* maximum returns exactly the qualifying rows, with the same columns, in
\* their order in the input.
C2_FilterExact ==
    (pc = "filtered" /\ ~IsNone(call.region)) =>
        /\ ret.kind = "table"
        /\ heap[vx_f].cols = given.cols
        /\ Increasing(ret.order)
        /\ Range(ret.order) = {i \in Rows(given) : C2_Qualifies(i)}
        /\ heap[vx_f].rows = [k \in 1..Len(ret.order) |-> given.rows[ret.order[k]]]

\* a list of two regions and both bounds: a row on the minimum was kept
\* and a row was dropped
C2_Witness ==
    /\ pc = "filtered"
    /\ call.region = List(<<"Europe", "Africa">>)
    /\ ~IsNone(call.max_pop)
    /\ \E k \in Rows(heap[vx_f]) : heap[vx_f].rows[k]["population"] = call.min_pop
    /\ Len(heap[vx_f].rows) < Len(given.rows)

\* ---- C3 ----------------------------------------------------------------
\* C3: filter_countries applied, with the same arguments, to its own output
\* returns the same rows in the same order.
C3_FilterIdempotent ==
    pc = "refiltered" =>
        /\ ret.kind = "table"
        /\ heap[vx_f].cols = given.cols
        /\ heap[vx_f].rows = given.rows
        /\ ret.order = Identity(given)

\* the second application was given a table the first one had narrowed
C3_Witness ==
    /\ pc = "refiltered"
    /\ Len(given.rows) >= 1
    /\ Len(given.rows) < Len(file.rows)
    /\ ~IsNone(call.region) /\ ~IsNone(call.max_pop)

\* ---- C4 ----------------------------------------------------------------
\* the ranking value of the input row at position i, and its order
C4_Key(i) == given.rows[i][call.by]
C4_Leq(a, b) == IF call.by = "density" THEN a.num * b.den <= b.num * a.den ELSE a <= b
\* the columns the call projects on
C4_Cols ==
    IF ~IsNone(call.cols) THEN call.cols.v
    ELSE <<"cca3", "name_common", "region", "population", "area">>
           \o (IF call.by = "density" \/ HasCol(given, "density") THEN <<"density">> ELSE <<>>)

C10_StableOrder ==
    CHOOSE p \in Perms(Len(given.rows)) :
        \A k \in 1..(Len(given.rows) - 1) :
            /\ C4_Leq(C4_Key(p[k + 1]), C4_Key(p[k]))
            /\ C4_Key(p[k + 1]) = C4_Key(p[k]) => p[k] < p[k + 1]

C6_MissingColumnRaises ==
    /\ (pc = "aggregated" /\ ~HasCol(given, "region")) => ret.kind = "ValueError"
    /\ (pc = "ranked" /\ call.fn = "top_density" /\ ~HasCol(given, "density")) =>
           ret.kind = "ValueError"
    /\ (pc = "ranked" /\ call.fn = "top_population"
          /\ (~HasCol(given, "population")
                \/ (IsNone(call.cols) /\ \E c \in Range(C4_Cols) : ~HasCol(given, c)))) =>
           ret.kind = "ValueError"

\* ---- C5 ----------------------------------------------------------------
C5_Regions == {given.rows[i]["region"] : i \in Rows(given)}

\* C5: agg_by_region on a table with a region column returns one row per
\* distinct region, whose country_count is the number of rows of that
\* region; the counts add up to the number of rows; the rows come by
\* non-increasing country_count.
C5_AggCounts ==
    (pc = "aggregated" /\ HasCol(given, "region")) =>
        /\ ret.kind = "table"
        /\ Len(heap[ret.ref].rows) = Cardinality(C5_Regions)
        /\ {heap[ret.ref].rows[k]["region"] : k \in Rows(heap[ret.ref])} = C5_Regions
        /\ \A k \in Rows(heap[ret.ref]) :
             /\ heap[ret.ref].rows[k]["country_count"] =
                  Cardinality({i \in Rows(given) :
                      given.rows[i]["region"] = heap[ret.ref].rows[k]["region"]})
             /\ k < Len(heap[ret.ref].rows) =>
                  heap[ret.ref].rows[k + 1]["country_count"]
                      <= heap[ret.ref].rows[k]["country_count"]
        /\ SumInt(heap[ret.ref], "country_count", Identity(heap[ret.ref])) = Len(given.rows)

\* two regions of different sizes, the larger one met second in the input
C5_Witness ==
    /\ pc = "aggregated" /\ ret.kind = "table"
    /\ Len(given.rows) = 3
    /\ Len(heap[ret.ref].rows) = 2
    /\ heap[ret.ref].rows[1]["country_count"] = 2
    /\ given.rows[1]["region"] = heap[ret.ref].rows[2]["region"]

\* ---- C8 ----------------------------------------------------------------
\* the row at position i of the cleaned table passes the sidebar's filters
C8_Qualifies(i) ==
    /\ (sidebar.region_pick # <<>> /\ HasCol(saved, "region")) =>
           saved.rows[i]["region"] \in Range(sidebar.region_pick)
    /\ HasCol(saved, "population") =>
           /\ saved.rows[i]["population"] >= sidebar.min_pop
           /\ ~IsNone(sidebar.max_pop) => saved.rows[i]["population"] <= sidebar.max_pop.v
\* the cleaned table's rows that pass them, in its order
C8_View ==
    Table(saved.cols,
          LET sel == Select(Len(saved.rows), [i \in Rows(saved) |-> C8_Qualifies(i)])
          IN  [k \in 1..Len(sel) |-> saved.rows[sel[k]]])

\* C8: whatever the session did so far, the cached table is as
\* clean_countries returned it; clean_countries left the loaded table as it
\* was given; what a run filters, ranks, aggregates and describes is the
\* cleaned table narrowed by the current values of the sidebar.
C8_CleanedImmutable ==
    /\ vx # 0 => heap[vx] = saved
    /\ pc = "cleaned" => (heap[raw] = given /\ given = file)
    /\ pc \in {"filtered", "tab2", "tab2d", "tab3", "done", "crashed"} =>
           /\ heap[vx_f] = C8_View
           /\ call.fn # "filter_countries" => given = C8_View
    /\ pc = "done" => ret.val = descriptive_stats(<<C8_View>>, 1).val

\* a run that got to its end after the widgets were changed, the cleaner having
\* dropped a row and filled a capital, the filter having dropped another
C8_Witness ==
    /\ pc = "done"
    /\ sidebar # Defaults
    /\ Len(saved.rows) < Len(file.rows)
    /\ Len(heap[vx_f].rows) < Len(saved.rows)
    /\ saved.rows[1]["capital"] = "Unknown"

=============================================================================
